---------------------------- MODULE Spec2Model ----------------------------
(* A model of package gospec: identifier.go (NewIdentifier, parse and the *)
(* case renderings) and imports.go (the Imports alias table and Add).     *)
(*                                                                         *)
(* A Go string is modelled as the sequence of its runes; a rune is a      *)
(* one-character TLA+ string, or "U+XXXX" for a rune outside ASCII.       *)
EXTENDS Integers, Sequences, FiniteSets

VARIABLES
    imp,      \* the Imports map: import path -> alias
    path,     \* argument of the Add call in progress / last made
    ret,      \* value returned by the last Add call
    branch,   \* the way the last Add call went: "noalias", "lookup" or "new"
    pc,       \* position inside Add (stepwise specification)
    alias,    \* Add's local variable alias
    elems,    \* Add's local variable elems
    i,        \* Add's loop counter
    source,   \* argument of NewIdentifier
    words,    \* NewIdentifier's local variable words
    ident,    \* the Identifier it returned
    ipc       \* "input" before the NewIdentifier call, "done" after it

vars == <<imp, path, ret, branch, pc, alias, elems, i, source, words, ident, ipc>>
impVars == <<imp, path, ret, branch, pc, alias, elems, i>>
idVars == <<source, words, ident, ipc>>

-----------------------------------------------------------------------------
(* Runes and package unicode                                               *)

AsciiLower == <<"a","b","c","d","e","f","g","h","i","j","k","l","m","n","o","p","q","r","s","t","u","v","w","x","y","z">>
AsciiUpper == <<"A","B","C","D","E","F","G","H","I","J","K","L","M","N","O","P","Q","R","S","T","U","V","W","X","Y","Z">>
AsciiDigit == {"0","1","2","3","4","5","6","7","8","9"}

Range(f) == {f[n] : n \in DOMAIN f}
IndexOf(f, r) == CHOOSE n \in DOMAIN f : f[n] = r

\* Runes outside ASCII, by general category:
\*   U+00E9 (Ll) e-acute, U+00C9 (Lu) its capital;
\*   U+01C4 (Lu), U+01C5 (Lt), U+01C6 (Ll): the digraph DZ-caron in upper,
\*     title and lower case;
\*   U+1D400 (Lu) MATHEMATICAL BOLD CAPITAL A, which has no case mappings.
UnicodeLu == {"U+00C9", "U+01C4", "U+1D400"}
UnicodeLt == {"U+01C5"}
UnicodeLl == {"U+00E9", "U+01C6"}

\* unicode.IsUpper: general category Lu
IsUpperRune(r) == r \in Range(AsciiUpper) \cup UnicodeLu
\* unicode.IsTitle: general category Lt
IsTitleRune(r) == r \in UnicodeLt
\* unicode.IsLetter: general category L
IsLetter(r) == r \in Range(AsciiLower) \cup Range(AsciiUpper) \cup UnicodeLu \cup UnicodeLt \cup UnicodeLl
\* unicode.IsNumber: general category N
IsNumber(r) == r \in AsciiDigit
\* unicode.IsSpace, as used by strings.TrimSpace
IsSpace(r) == r = " "

\* unicode.ToLower: the simple lower-case mapping, the rune itself without one
ToLower(r) ==
    IF r \in Range(AsciiUpper) THEN AsciiLower[IndexOf(AsciiUpper, r)]
    ELSE IF r = "U+00C9" THEN "U+00E9"
    ELSE IF r \in {"U+01C4", "U+01C5"} THEN "U+01C6"
    ELSE r

\* unicode.ToTitle: the simple title-case mapping, the rune itself without one
ToTitle(r) ==
    IF r \in Range(AsciiLower) THEN AsciiUpper[IndexOf(AsciiLower, r)]
    ELSE IF r = "U+00E9" THEN "U+00C9"
    ELSE IF r \in {"U+01C4", "U+01C6"} THEN "U+01C5"
    ELSE r

-----------------------------------------------------------------------------
(* identifier.go                                                           *)

\* parser.shift
shift(p) ==
    IF Len(p.word) > 0
    THEN [word |-> <<>>, words |-> Append(p.words, p.word)]
    ELSE p

\* parser.write
write(p, r) == [p EXCEPT !.word = Append(p.word, r)]

isUpper(r) == IsUpperRune(r) \/ IsTitleRune(r)

\* isLower without unicode.IsNumber: a digit becomes a separator
isLowerLettersOnly(r) == IsLetter(r)

isLower(r) == IsLetter(r) \/ IsNumber(r)

\* strings.TrimSpace
RECURSIVE TrimLeft(_)
TrimLeft(s) == IF s # <<>> /\ IsSpace(Head(s)) THEN TrimLeft(Tail(s)) ELSE s

RECURSIVE TrimRight(_)
TrimRight(s) ==
    IF s # <<>> /\ IsSpace(s[Len(s)]) THEN TrimRight(SubSeq(s, 1, Len(s) - 1)) ELSE s

TrimSpace(s) == TrimRight(TrimLeft(s))

\* one iteration of parse's range loop, on rune r0
ParseRune(p, r0) ==
    LET up == isUpper(r0)
        r  == IF up THEN ToLower(r0) ELSE r0
        p1 == IF up THEN shift(p) ELSE p
    IN  IF isLower(r) THEN write(p1, r) ELSE shift(p1)

RECURSIVE ParseLoop(_, _)
ParseLoop(p, s) == IF s = <<>> THEN p ELSE ParseLoop(ParseRune(p, Head(s)), Tail(s))

parse(s0) ==
    LET s == TrimSpace(s0)
    IN  IF Len(s) = 0 THEN <<>>
        ELSE shift(ParseLoop([word |-> <<>>, words |-> <<>>], s)).words

\* strings.Join
RECURSIVE Join(_, _)
Join(ws, sep) ==
    IF ws = <<>> THEN <<>>
    ELSE IF Len(ws) = 1 THEN ws[1]
    ELSE ws[1] \o sep \o Join(Tail(ws), sep)

title(s) == [n \in 1..Len(s) |-> IF n = 1 THEN ToTitle(s[n]) ELSE s[n]]

\* a strings.Builder receiving words ws[from..Len(ws)], each through title
RECURSIVE WriteTitled(_, _, _)
WriteTitled(sb, ws, from) ==
    IF from > Len(ws) THEN sb ELSE WriteTitled(sb \o title(ws[from]), ws, from + 1)

\* camel with its loop begun at the first word
camelFromFirst(ws) == IF Len(ws) = 0 THEN <<>> ELSE WriteTitled(<<>>, ws, 1)

camel(ws) == IF Len(ws) = 0 THEN <<>> ELSE WriteTitled(ws[1], ws, 2)

kebab(ws) == Join(ws, <<"-">>)

natural(ws) == Join(ws, <<" ">>)

packge(ws) == Join(ws, <<>>)

pascal(ws) == IF Len(ws) = 0 THEN <<>> ELSE WriteTitled(<<>>, ws, 1)

snake(ws) == Join(ws, <<"_">>)

\* the Identifier NewIdentifier builds from s and words = parse(s)
MakeIdentifier(s, ws) ==
        [Camel   |-> camel(ws),
         Kebab   |-> kebab(ws),
         Natural |-> natural(ws),
         Package |-> packge(ws),
         Pascal  |-> pascal(ws),
         Snake   |-> snake(ws),
         Source  |-> s]

NewIdentifier(s) == MakeIdentifier(s, parse(s))

\* the zero value of type Identifier
ZeroIdentifier ==
    [Camel |-> <<>>, Kebab |-> <<>>, Natural |-> <<>>, Package |-> <<>>,
     Pascal |-> <<>>, Snake |-> <<>>, Source |-> <<>>]

-----------------------------------------------------------------------------
(* imports.go                                                              *)

\* invalidIdentifierChar, [^[:digit:][:alpha:]_]: the classes [:digit:] and
\* [:alpha:] of package regexp are the ASCII ones, 0-9 and A-Za-z.
invalidIdentifierChar(r) ==
    r \notin AsciiDigit \cup Range(AsciiLower) \cup Range(AsciiUpper) \cup {"_"}

\* invalidIdentifierChar.ReplaceAllString(s, "")
RECURSIVE ReplaceAllInvalid(_)
ReplaceAllInvalid(s) ==
    IF s = <<>> THEN <<>>
    ELSE IF invalidIdentifierChar(Head(s)) THEN ReplaceAllInvalid(Tail(s))
    ELSE <<Head(s)>> \o ReplaceAllInvalid(Tail(s))

\* strings.Split(s, "/")
RECURSIVE Split(_)
Split(s) ==
    IF \A n \in 1..Len(s) : s[n] # "/" THEN <<s>>
    ELSE LET n == CHOOSE n \in 1..Len(s) :
                      s[n] = "/" /\ \A k \in 1..(n - 1) : s[k] # "/"
         IN  <<SubSeq(s, 1, n - 1)>> \o Split(SubSeq(s, n + 1, Len(s)))

_keywords ==
    { <<"b","r","e","a","k">>, <<"c","a","s","e">>, <<"c","h","a","n">>,
      <<"c","o","n","s","t">>, <<"c","o","n","t","i","n","u","e">>, <<"d","e","f","a","u","l","t">>,
      <<"d","e","f","e","r">>, <<"e","l","s","e">>, <<"f","a","l","l","t","h","r","o","u","g","h">>,
      <<"f","o","r">>, <<"f","u","n","c">>, <<"g","o">>,
      <<"g","o","t","o">>, <<"i","f">>, <<"i","m","p","o","r","t">>,
      <<"i","n","t","e","r","f","a","c","e">>, <<"m","a","p">>, <<"p","a","c","k","a","g","e">>,
      <<"r","a","n","g","e">>, <<"r","e","t","u","r","n">>, <<"s","e","l","e","c","t">>,
      <<"s","t","r","u","c","t">>, <<"s","w","i","t","c","h">>, <<"t","y","p","e">>,
      <<"v","a","r">> }

\* isKeyword with the lookup result dropped
isKeywordNever(s) == FALSE

isKeyword(s) == s \in _keywords

newAlias(es) == ReplaceAllInvalid(Join(es, <<>>))

\* isValid without the loop over the aliases in use
isValidIgnoringUse(m, a) ==
    IF Len(a) = 0 \/ isKeyword(a) THEN FALSE
    ELSE IsLetter(a[1])

\* Imports.isValid on the map m
isValid(m, a) ==
    IF Len(a) = 0 \/ isKeyword(a) THEN FALSE
    ELSE IF ~IsLetter(a[1]) THEN FALSE
    ELSE \A k \in DOMAIN m : m[k] # a

\* an empty Imports map
EmptyImports == [k \in {} |-> <<>>]

\* a fresh map holding the one binding
BindAlone(m, p, a) == [k \in {p} |-> a]

\* imp[path] = alias
Bind(m, p, a) == [k \in DOMAIN m \cup {p} |-> IF k = p THEN a ELSE m[k]]

\* fmt.Sprintf("%s", alias): the x left out of the format
PrependNothing(a) == a

\* fmt.Sprintf("x%s", alias)
PrependX(a) == <<"x">> \o a

\* elems[len(elems)-i:]
LastElems(es, n) == SubSeq(es, Len(es) - n + 1, Len(es))

\* the loop "for !imp.isValid(alias)": the alias it ends with
RECURSIVE FallbackLoop(_, _)
FallbackLoop(m, a) == IF isValid(m, a) THEN a ELSE FallbackLoop(m, PrependX(a))

\* the loop "for i := 1; i <= len(elems); i++" from n on, a being the alias
\* tried last, followed by the fallback loop: the alias Add binds
RECURSIVE SuffixLoop(_, _, _, _)
SuffixLoop(m, es, n, a) ==
    IF n <= Len(es)
    THEN LET c == newAlias(LastElems(es, n))
         IN  IF isValid(m, c) THEN c ELSE SuffixLoop(m, es, n + 1, c)
    ELSE FallbackLoop(m, a)

\* the first test of Add without path == "."
NoAliasPathWithoutDot(p) == p = <<>> \/ p = <<"/">>

\* the paths that get no alias
NoAliasPath(p) == p = <<>> \/ p = <<".">> \/ p = <<"/">>

\* the return statement Add(p) leaves by, on the map m
AddBranch(m, p) ==
    IF NoAliasPath(p) THEN "noalias" ELSE IF p \in DOMAIN m THEN "lookup" ELSE "new"

\* Add without the lookup of a path already in the map
AddWithoutLookup(m, p) ==
    IF NoAliasPath(p) THEN [imp |-> m, ret |-> <<>>]
    ELSE LET a == SuffixLoop(m, Split(p), 1, <<>>)
         IN  [imp |-> Bind(m, p, a), ret |-> a]

\* Imports.Add(p) on the map m: the map it leaves and the alias it returns
Add(m, p) ==
    IF NoAliasPath(p) THEN [imp |-> m, ret |-> <<>>]
    ELSE IF p \in DOMAIN m THEN [imp |-> m, ret |-> m[p]]
    ELSE LET a == SuffixLoop(m, Split(p), 1, <<>>)
         IN  [imp |-> Bind(m, p, a), ret |-> a]

-----------------------------------------------------------------------------
(* Inputs of NewIdentifier                                                 *)

MaxSrcLen == 3

SrcAlphabet == {"a", "A", "1", "_", " ", "U+01C5", "U+1D400"}

StrUserID == <<"U","s","e","r","I","D">>
StrHTTPServer == <<"H","T","T","P","S","e","r","v","e","r">>
StrUser_id == <<"u","s","e","r","_","i","d">>
StrHTTPServerName2 == <<"H","T","T","P","S","e","r","v","e","r"," ","N","a","m","e","_","2">>

Sources ==
    UNION {[1..n -> SrcAlphabet] : n \in 0..MaxSrcLen}
    \cup {StrUserID, StrHTTPServer, StrUser_id, StrHTTPServerName2}

\* an empty table and no call of Add in progress
InitImpIdle ==
    /\ imp = EmptyImports /\ path = <<>> /\ ret = <<>> /\ branch = "none"
    /\ pc = "idle" /\ alias = <<>> /\ elems = <<>> /\ i = 0

\* before the call: any source string, no result yet, and an idle table
InitId ==
    /\ source \in Sources /\ words = <<>> /\ ident = ZeroIdentifier /\ ipc = "input"
    /\ InitImpIdle

\* the call NewIdentifier(source)
CallNewIdentifier ==
    /\ ipc = "input"
    /\ words' = parse(source)
    /\ ident' = MakeIdentifier(source, words')
    /\ ipc' = "done"
    /\ UNCHANGED <<source, impVars>>

SpecId == InitId /\ [][CallNewIdentifier]_vars

-----------------------------------------------------------------------------
(* Calls of Add                                                            *)

MaxPathLen == 2
MaxEntries == 2
MaxAliasLen == 16

PathAlphabet == {"g", "o", "/"}

StrJson == <<"j","s","o","n">>
StrEncodingSlashJson == <<"e","n","c","o","d","i","n","g","/","j","s","o","n">>
StrEncodingjson == <<"e","n","c","o","d","i","n","g","j","s","o","n">>
StrXencodingjson == <<"x","e","n","c","o","d","i","n","g","j","s","o","n">>

Paths ==
    UNION {[1..n -> PathAlphabet] : n \in 0..MaxPathLen}
    \cup { <<".">>, <<".", ".">>, <<"_">>, <<"1", "g">>, <<"g", ".", "o">>,
           <<"o", "/", "g">>, <<"U+00E9">>, <<"U+00E9", "/", "g">>,
           StrJson, StrEncodingSlashJson, StrEncodingjson }

InitIdDone == source = <<>> /\ words = <<>> /\ ident = ZeroIdentifier /\ ipc = "done"

Init == InitImpIdle /\ InitIdDone

\* a call imp.Add(p), from entry to return
CallAdd(p) ==
    /\ pc = "idle"
    /\ NoAliasPath(p) \/ p \in DOMAIN imp \/ Cardinality(DOMAIN imp) < MaxEntries
    /\ path' = p
    /\ imp' = Add(imp, p).imp
    /\ ret' = Add(imp, p).ret
    /\ branch' = AddBranch(imp, p)
    /\ UNCHANGED <<pc, alias, elems, i, idVars>>

Next == \E p \in Paths : CallAdd(p)

Spec == Init /\ [][Next]_vars

(* Add statement by statement: pc is "idle" outside a call, "suffix" at the *)
(* head of the loop over the path elements and "fallback" at the head of   *)
(* the loop that prepends "x".                                             *)

\* return a: Add's locals go away
Return(a) ==
    /\ ret' = a
    /\ pc' = "idle"
    /\ alias' = <<>> /\ elems' = <<>> /\ i' = 0

\* entry of Add(p), up to the head of the first loop
AddEnter(p) ==
    /\ pc = "idle"
    /\ NoAliasPath(p) \/ p \in DOMAIN imp \/ Cardinality(DOMAIN imp) < MaxEntries
    /\ path' = p
    /\ branch' = AddBranch(imp, p)
    /\ IF NoAliasPath(p) THEN Return(<<>>)
       ELSE IF p \in DOMAIN imp THEN Return(imp[p])
       ELSE /\ alias' = <<>> /\ elems' = Split(p) /\ i' = 1
            /\ pc' = "suffix"
            /\ ret' = ret
    /\ UNCHANGED <<imp, idVars>>

\* one iteration of "for i := 1; i <= len(elems); i++"
SuffixStep ==
    /\ pc = "suffix"
    /\ i <= Len(elems)
    /\ LET c == newAlias(LastElems(elems, i))
       IN  IF isValid(imp, c)
           THEN imp' = Bind(imp, path, c) /\ Return(c)
           ELSE /\ alias' = c /\ i' = i + 1
                /\ UNCHANGED <<imp, ret, pc, elems>>
    /\ UNCHANGED <<path, branch, idVars>>

\* the first loop ends with every element tried
SuffixExit ==
    /\ pc = "suffix"
    /\ i > Len(elems)
    /\ pc' = "fallback"
    /\ UNCHANGED <<imp, path, ret, branch, alias, elems, i, idVars>>

\* one iteration of "for !imp.isValid(alias)"
FallbackStep ==
    /\ pc = "fallback"
    /\ ~isValid(imp, alias)
    /\ Len(alias) < MaxAliasLen
    /\ alias' = PrependX(alias)
    /\ UNCHANGED <<imp, path, ret, branch, pc, elems, i, idVars>>

\* the second loop ends: imp[path] = alias; return alias
FallbackExit ==
    /\ pc = "fallback"
    /\ isValid(imp, alias)
    /\ imp' = Bind(imp, path, alias)
    /\ Return(alias)
    /\ UNCHANGED <<path, branch, idVars>>

AddStep == SuffixStep \/ SuffixExit \/ FallbackStep \/ FallbackExit

NextLoop == (\E p \in Paths : AddEnter(p)) \/ AddStep

\* A call that has begun runs to its return: Add is straight-line code of one
\* goroutine, so a step of it that can be taken is taken.
SpecLoop == Init /\ [][NextLoop]_vars /\ WF_vars(AddStep)

-----------------------------------------------------------------------------
(* Properties of identifier.go                                             *)

\* The character classes of the segmentation rule, stated on their own.
RefUpper(r) == IsUpperRune(r) \/ IsTitleRune(r)
RefCont(r) == (IsLetter(r) \/ IsNumber(r)) /\ ~RefUpper(r)
RefSep(r) == ~RefUpper(r) /\ ~RefCont(r)

\* The positions of t at which a word begins: every upper or title-case rune,
\* and every other letter or digit with no word pending before it.
RefStarts(t) ==
    {n \in 1..Len(t) :
        \/ RefUpper(t[n])
        \/ RefCont(t[n]) /\ (n = 1 \/ RefSep(t[n - 1]))}

\* The last position of the word that begins at n: it runs through the
\* letters and digits that follow, up to the next upper rune or separator.
RefEnd(t, n) ==
    CHOOSE m \in n..Len(t) :
        /\ \A k \in (n + 1)..m : RefCont(t[k])
        /\ m = Len(t) \/ ~RefCont(t[m + 1])

RefWord(t, n) ==
    [k \in 1..(RefEnd(t, n) - n + 1) |->
        IF k = 1 /\ RefUpper(t[n]) THEN ToLower(t[n]) ELSE t[n + k - 1]]

\* the m-th smallest element of a set of numbers
NthOf(S, m) == CHOOSE n \in S : Cardinality({k \in S : k < n}) = m - 1

RefWords(t) ==
    [m \in 1..Cardinality(RefStarts(t)) |-> RefWord(t, NthOf(RefStarts(t), m))]

WordsUserID == << <<"u","s","e","r">>, <<"i">>, <<"d">> >>
WordsHTTPServer == << <<"h">>, <<"t">>, <<"t">>, <<"p">>, <<"s","e","r","v","e","r">> >>
WordsHTTPServerName2 ==
    << <<"h">>, <<"t">>, <<"t">>, <<"p">>, <<"s","e","r","v","e","r">>,
       <<"n","a","m","e">>, <<"2">> >>

\* The boundary rule itself: parse returns the words that begin at every
\* upper or title-case rune (lower-cased) and at every letter or digit with no
\* word pending, each running through the following letters and digits.
SegmentationRule ==
    ipc = "done" =>
        /\ words = RefWords(source)
        /\ source = StrUserID => words = WordsUserID
        /\ source = StrHTTPServer => words = WordsHTTPServer

\* C8 as stated: the boundary rule, and digits never start a new word, that is
\* no word of the result begins with a digit.
C8_AsStated ==
    /\ SegmentationRule
    /\ ipc = "done" => \A n \in 1..Len(words) : ~IsNumber(words[n][1])

\* C8 as amended: the boundary rule, and a digit never closes a pending word:
\* a word begins with a digit only where that digit is the first rune of the
\* input or follows a separator, and a digit that follows a letter, a digit or
\* an upper-case rune continues that word.
C8_BoundaryRule ==
    /\ SegmentationRule
    /\ ipc = "done" =>
          Cardinality({n \in 1..Len(words) : IsNumber(words[n][1])})
            = Cardinality({n \in 1..Len(source) :
                  IsNumber(source[n]) /\ (n = 1 \/ RefSep(source[n - 1]))})

\* C8 witness: an upper-case run, its last letter extended, and a digit that
\* opens a word after a separator.
C8_Witness ==
    ipc = "done" /\ source = StrHTTPServerName2 /\ words = WordsHTTPServerName2

\* C9 as stated: every word of parse is non-empty and made of letters and
\* digits none of which is upper-case; an input of separators only gives no
\* words and six empty renderings.
C9_AsStated ==
    ipc = "done" =>
        /\ \A n \in 1..Len(words) :
              /\ words[n] # <<>>
              /\ \A k \in 1..Len(words[n]) :
                    /\ IsLetter(words[n][k]) \/ IsNumber(words[n][k])
                    /\ ~IsUpperRune(words[n][k])
                    /\ ~IsTitleRune(words[n][k])
        /\ (\A n \in 1..Len(source) : RefSep(source[n])) =>
              /\ words = <<>>
              /\ ident.Camel = <<>> /\ ident.Kebab = <<>> /\ ident.Natural = <<>>
              /\ ident.Package = <<>> /\ ident.Pascal = <<>> /\ ident.Snake = <<>>

\* The renderings, stated on their own.
RECURSIVE RefJoin(_, _)
RefJoin(ws, sep) ==
    IF Len(ws) = 0 THEN <<>>
    ELSE IF Len(ws) = 1 THEN ws[1]
    ELSE RefJoin(SubSeq(ws, 1, Len(ws) - 1), sep) \o sep \o ws[Len(ws)]

\* w with only its first rune upper-cased: the title-case mapping of the
\* first rune, as section 4.2 of the specification defines the capital.
RefCapital(w) == IF w = <<>> THEN w ELSE <<ToTitle(w[1])>> \o Tail(w)

RefCapitals(ws) == [n \in 1..Len(ws) |-> RefCapital(ws[n])]

\* C10: the six renderings are computed from the one word sequence
\* parse(source): Snake, Kebab and Natural join it with "_", "-" and " ",
\* Package concatenates it, Pascal concatenates the capitalised words, Camel
\* is Pascal with the first word left as it is, and Source is the input.
C10_Renderings ==
    ipc = "done" =>
        /\ ident.Snake = RefJoin(words, <<"_">>)
        /\ ident.Kebab = RefJoin(words, <<"-">>)
        /\ ident.Natural = RefJoin(words, <<" ">>)
        /\ ident.Package = RefJoin(words, <<>>)
        /\ ident.Pascal = RefJoin(RefCapitals(words), <<>>)
        /\ ident.Camel =
              IF words = <<>> THEN <<>>
              ELSE words[1] \o RefJoin(RefCapitals(Tail(words)), <<>>)
        /\ ident.Source = source
        /\ source = StrUser_id =>
              /\ ident.Snake = <<"u","s","e","r","_","i","d">>
              /\ ident.Pascal = <<"U","s","e","r","I","d">>
              /\ ident.Kebab = <<"u","s","e","r","-","i","d">>
        /\ source = StrUserID => ident.Camel = <<"u","s","e","r","I","D">>

\* C10 witness: a rendering of several words, one of them ending in a digit.
C10_Witness ==
    /\ ipc = "done"
    /\ source = <<"a", "A", "1">>
    /\ words = << <<"a">>, <<"a", "1">> >>
    /\ ident.Camel = <<"a", "A", "1">>
    /\ ident.Snake = <<"a", "_", "a", "1">>

-----------------------------------------------------------------------------
(* Properties of imports.go                                                *)

Aliases(m) == {m[k] : k \in DOMAIN m}

\* the paths for which Add allocates nothing
RefNoAlias(p) == p \in { <<>>, <<".">>, <<"/">> }

\* an alias of the identifier grammar that is no keyword
RefIdentifier(a) ==
    /\ a # <<>>
    /\ IsLetter(a[1])
    /\ \A n \in 1..Len(a) : IsLetter(a[n]) \/ IsNumber(a[n]) \/ a[n] = "_"
    /\ a \notin _keywords

\* C1: no two distinct paths of the table have the same alias.
C1_AliasesUnique ==
    \A k1 \in DOMAIN imp : \A k2 \in DOMAIN imp : k1 # k2 => imp[k1] # imp[k2]

\* C1 witness: the second path's candidates were both in use, and it got
\* another alias.
C1_Witness ==
    /\ DOMAIN imp = { <<"g">>, <<"/", "g">> }
    /\ imp[<<"g">>] = <<"g">>
    /\ imp[<<"/", "g">>] = <<"x", "g">>

\* C2: every alias in the table, and every non-empty alias Add returns, is
\* non-empty, begins with a letter, is made of letters, digits and "_" and is
\* no keyword.
C2_AliasesValid ==
    /\ \A k \in DOMAIN imp : RefIdentifier(imp[k])
    /\ ret # <<>> => RefIdentifier(ret)

\* C2 witness: one alias from a suffix candidate, one from the x fallback
\* (the only candidate of path "go" is a keyword).
C2_Witness ==
    /\ DOMAIN imp = { <<"g">>, <<"g", "o">> }
    /\ imp[<<"g">>] = <<"g">>
    /\ imp[<<"g", "o">>] = <<"x", "g", "o">>

\* C3: a call of Add for a path already in the table returns the alias the
\* first call returned and stored, and leaves the table as it is; a path that
\* gets no alias gets none again.
C3_Idempotent ==
    /\ [](branch \in {"new", "lookup"} => path \in DOMAIN imp /\ ret = imp[path])
    /\ [][path' \in DOMAIN imp => ret' = imp[path'] /\ imp' = imp]_vars
    /\ [][RefNoAlias(path') /\ RefNoAlias(path) /\ branch = "noalias" =>
            ret' = ret /\ imp' = imp]_vars

\* C3 witness: the path of the first of two entries is added again.
C3_Witness ==
    /\ branch = "lookup"
    /\ DOMAIN imp = { <<"g">>, <<"/", "g">> }
    /\ imp[<<"/", "g">>] = <<"x", "g">>
    /\ path = <<"g">> /\ ret = <<"g">>

\* C4: Add("") , Add(".") and Add("/") return "" and leave the table as it
\* is, none of them is ever a key of the table, and a call for any other path
\* returns a non-empty alias that the table then holds for that path.
C4_NoAliasRule ==
    /\ [][RefNoAlias(path') => ret' = <<>> /\ imp' = imp]_vars
    /\ [](\A k \in DOMAIN imp : ~RefNoAlias(k))
    /\ [][~RefNoAlias(path') =>
            ret' # <<>> /\ path' \in DOMAIN imp' /\ imp'[path'] = ret']_vars

\* C4 witness: Add(".") on a table that holds an entry.
C4_Witness ==
    /\ branch = "noalias" /\ path = <<".">> /\ ret = <<>>
    /\ DOMAIN imp = { <<"g">> }

\* C5 as stated. The candidates of path p: c(n) is the last n elements of p
\* joined, with the runes that are not a letter, a digit or "_" removed.
RefStrip(s) == SelectSeq(s, LAMBDA r : IsLetter(r) \/ IsNumber(r) \/ r = "_")

RefSlashes(p) == {n \in 1..Len(p) : p[n] = "/"}

RefElemCount(p) == Cardinality(RefSlashes(p)) + 1

\* the last n elements of p begin after the n-th "/" from the right
RefCandidate(p, n) ==
    IF n = RefElemCount(p) THEN RefStrip(p)
    ELSE LET s == CHOOSE s \in RefSlashes(p) :
                      Cardinality({k \in RefSlashes(p) : k >= s}) = n
         IN  RefStrip(SubSeq(p, s + 1, Len(p)))

RefValid(m, a) ==
    /\ a # <<>>
    /\ a \notin _keywords
    /\ IsLetter(a[1])
    /\ a \notin Aliases(m)

RefXs(n, a) == [k \in 1..n |-> "x"] \o a

Least(S) == CHOOSE n \in S : \A k \in S : n <= k

\* the first valid string of c(1), ..., c(n), "x" c(n), "xx" c(n), ...
RefFirstValid(m, p) ==
    LET n    == RefElemCount(p)
        good == {k \in 1..n : RefValid(m, RefCandidate(p, k))}
        xs   == {k \in 1..(Cardinality(DOMAIN m) + 1) :
                    RefValid(m, RefXs(k, RefCandidate(p, n)))}
    IN  IF good # {} THEN RefCandidate(p, Least(good))
        ELSE RefXs(Least(xs), RefCandidate(p, n))

\* C5: a call of Add for a path that is not in the table and is none of "",
\* "." and "/" binds and returns the first valid string of the candidate
\* sequence; with only "json" in use Add("encoding/json") returns
\* "encodingjson", and with that in use too Add("encodingjson") returns
\* "xencodingjson".
C5_CandidateOrder ==
    [][path' \notin DOMAIN imp /\ ~RefNoAlias(path') =>
          /\ ret' = RefFirstValid(imp, path')
          /\ imp' = [k \in DOMAIN imp \cup {path'} |->
                        IF k = path' THEN ret' ELSE imp[k]]
          /\ path' = StrEncodingSlashJson /\ Aliases(imp) = {StrJson}
                => ret' = StrEncodingjson
          /\ path' = StrEncodingjson /\ Aliases(imp) = {StrJson, StrEncodingjson}
                => ret' = StrXencodingjson]_vars

\* C5 restricted to paths of ASCII runes, where the runes removed by Add are
\* those the claim names.
C5_CandidateOrderAscii ==
    [][path' \notin DOMAIN imp /\ ~RefNoAlias(path')
          /\ (\A n \in 1..Len(path') : path'[n] # "U+00E9") =>
          /\ ret' = RefFirstValid(imp, path')
          /\ imp' = [k \in DOMAIN imp \cup {path'} |->
                        IF k = path' THEN ret' ELSE imp[k]]]_vars

\* C6: a call of Add returns; when it returns for a path other than "", "."
\* and "/", the path is bound to a valid alias that no other path has; and
\* every iteration of the x loop makes the candidate one rune longer.
C6_AddTerminates ==
    /\ (pc # "idle") ~> (pc = "idle")
    /\ [](pc = "idle" /\ ~RefNoAlias(path) =>
            /\ path \in DOMAIN imp
            /\ RefIdentifier(imp[path])
            /\ \A k \in DOMAIN imp : k # path => imp[k] # imp[path])
    /\ [][pc = "fallback" /\ pc' = "fallback" => Len(alias') = Len(alias) + 1]_vars

\* C6 witness: the x loop ran twice, "x" being in use, and Add returned.
C6_Witness ==
    /\ pc = "idle" /\ branch = "new"
    /\ path = <<".", ".">> /\ ret = <<"x", "x">>
    /\ imp[<<".", ".">>] = <<"x", "x">>
    /\ <<"x">> \in Aliases(imp)

\* C7: a call of Add keeps every binding of the table and adds at most one,
\* for the path it was called with.
C7_TableGrows ==
    [][/\ \A k \in DOMAIN imp : k \in DOMAIN imp' /\ imp'[k] = imp[k]
       /\ DOMAIN imp' \subseteq DOMAIN imp \cup {path'}]_vars

\* C7 witness: a second entry was added to the table.
C7_Witness ==
    /\ branch = "new" /\ path = <<"o">>
    /\ DOMAIN imp = { <<"g">>, <<"o">> }
    /\ imp[<<"g">>] = <<"g">> /\ imp[<<"o">>] = <<"o">>

=============================================================================
